---- MODULE Spec2Model ----
(***************************************************************************)
(* Model of editor-command (src/src/lib.rs): EditorBuilder, its sources,   *)
(* the VISUAL/EDITOR environment, the path list and build().               *)
(*                                                                         *)
(* A string is a sequence of one-character strings.  An Option is a        *)
(* sequence of length 0 (None) or 1 (Some).                                *)
(***************************************************************************)
EXTENDS Naturals, Sequences, FiniteSets

VARIABLES
    visual,      \* process environment: raw state of VISUAL
    editor,      \* process environment: raw state of EDITOR
    builder,     \* the EditorBuilder value: [command, paths]
    pc,          \* "building" | "built" (build() returned) | "edited" (edit_file() returned)
    result,      \* what build() / edit_file() returned
    offers,      \* history: every candidate offered to the builder, in call order
    registered,  \* history: every path given to path(), in call order
    envCalled,   \* history: environment() has been called on the builder
    planned,     \* history: what build() would have returned right after the last builder call
    edited       \* history: the path given to edit_file(), as an Option

vars == <<visual, editor, builder, pc, result, offers, registered, envCalled, planned, edited>>

----------------------------------------------------------------------------
(* Bounds *)

MaxOffers == 3
MaxPaths == 2
MaxCmdLen == 3

----------------------------------------------------------------------------
(* Values *)

None == <<>>
Some(x) == <<x>>
IsSome(o) == Len(o) = 1

\* Option::or
Or(a, b) == IF IsSome(a) THEN a ELSE b

Whitespace == {" "}
QuoteChars == {"'", "\""}
Alphabet == {"a", " ", "'", "\""}

Empty == <<>>
TwoWords == <<"a", " ", "b">>
Unclosed == <<"'", "a">>

\* the command of tests::parsing: ned '--single " quotes' "--double ' quotes"
NedExample ==
    <<"n", "e", "d", " ",
      "'", "-", "-", "s", "i", "n", "g", "l", "e", " ", "\"", " ",
           "q", "u", "o", "t", "e", "s", "'", " ",
      "\"", "-", "-", "d", "o", "u", "b", "l", "e", " ", "'", " ",
            "q", "u", "o", "t", "e", "s", "\"">>

\* command strings given to source() and held by VISUAL / EDITOR
CmdSamples == {Empty, TwoWords, Unclosed}

\* paths given to path(); the second one holds a space
PathSamples == {<<"p">>, <<"q", " ", "r">>}

RECURSIVE StringsUpTo(_)
StringsUpTo(n) ==
    IF n = 0 THEN {<<>>}
    ELSE LET shorter == StringsUpTo(n - 1)
         IN  shorter \cup {Append(s, c) : s \in {t \in shorter : Len(t) = n - 1}, c \in Alphabet}

\* raw state of an environment variable
Unset == [kind |-> "Unset", val |-> <<>>]
NotUnicode == [kind |-> "NotUnicode", val |-> <<>>]
Unicode(s) == [kind |-> "Unicode", val |-> s]
EnvValues == {Unset, NotUnicode} \cup {Unicode(s) : s \in CmdSamples}

\* env::var(name).ok()
EnvVar(raw) == IF raw.kind = "Unicode" THEN Some(raw.val) ELSE None

----------------------------------------------------------------------------
(* shellish_parse::parse with ParseOptions::default(), on the alphabet above *)

DanglingString == "dangling string"

RECURSIVE Scan(_, _, _, _, _, _)
Scan(s, i, quote, cur, inTok, out) ==
    IF i > Len(s)
    THEN IF quote # ""
         THEN [ok |-> FALSE, tokens |-> <<>>, err |-> DanglingString]
         ELSE [ok |-> TRUE, tokens |-> IF inTok THEN Append(out, cur) ELSE out, err |-> ""]
    ELSE LET c == s[i]
         IN  IF quote # ""
             THEN IF c = quote
                  THEN Scan(s, i + 1, "", cur, TRUE, out)
                  ELSE Scan(s, i + 1, quote, Append(cur, c), TRUE, out)
             ELSE IF c \in QuoteChars
                  THEN Scan(s, i + 1, c, cur, TRUE, out)
             ELSE IF c \in Whitespace
                  THEN Scan(s, i + 1, "", <<>>, FALSE, IF inTok THEN Append(out, cur) ELSE out)
             ELSE Scan(s, i + 1, "", Append(cur, c), TRUE, out)

parse(s) == Scan(s, 1, "", <<>>, FALSE, <<>>)

----------------------------------------------------------------------------
(* EditorBuilderError and the result of build() *)

NoResult == [kind |-> "None", program |-> <<>>, args |-> <<>>, source |-> ""]
Ok(program, args) == [kind |-> "Ok", program |-> program, args |-> args, source |-> ""]
NoCommand == [kind |-> "NoCommand", program |-> <<>>, args |-> <<>>, source |-> ""]
EmptyCommand == [kind |-> "EmptyCommand", program |-> <<>>, args |-> <<>>, source |-> ""]
ParseError(source) == [kind |-> "ParseError", program |-> <<>>, args |-> <<>>, source |-> source]

\* impl Display for EditorBuilderError
Display(e) ==
    CASE e.kind = "NoCommand" -> "Edit command not defined in any of the listed sources"
      [] e.kind = "EmptyCommand" -> "Editor command is empty"
      [] e.kind = "ParseError" -> "Invalid editor command: " \o e.source
      [] OTHER -> ""

\* impl Error for EditorBuilderError: source()
ErrorSource(e) == IF e.kind = "ParseError" THEN Some(e.source) ELSE None

----------------------------------------------------------------------------
(* EditorBuilder *)

New == [command |-> None, paths |-> <<>>]

Source_lastWins(b, source) == [b EXCEPT !.command = Or(source, b.command)]

Source_skipEmpty(b, source) ==
    [b EXCEPT !.command = Or(b.command, IF source = Some(Empty) THEN None ELSE source)]

Source(b, source) == [b EXCEPT !.command = Or(b.command, source)]

Environment_editorFirst(b, vis, ed) ==
    [b EXCEPT !.command =
        IF IsSome(b.command) THEN b.command
        ELSE IF IsSome(EnvVar(ed)) THEN EnvVar(ed)
        ELSE EnvVar(vis)]

Environment(b, vis, ed) ==
    [b EXCEPT !.command =
        IF IsSome(b.command) THEN b.command
        ELSE IF IsSome(EnvVar(vis)) THEN EnvVar(vis)
        ELSE EnvVar(ed)]

Path_prepend(b, path) == [b EXCEPT !.paths = <<path>> \o @]

Path(b, path) == [b EXCEPT !.paths = Append(@, path)]

Build_blankIsNoCommand(b) ==
    IF ~IsSome(b.command) THEN NoCommand
    ELSE LET parsed == parse(b.command[1])
         IN  IF ~parsed.ok THEN ParseError(parsed.err)
             ELSE IF parsed.tokens = <<>> THEN NoCommand
             ELSE Ok(Head(parsed.tokens), Tail(parsed.tokens) \o b.paths)

Build_parseErrorAsEmpty(b) ==
    IF ~IsSome(b.command) THEN NoCommand
    ELSE LET parsed == parse(b.command[1])
         IN  IF ~parsed.ok \/ parsed.tokens = <<>> THEN EmptyCommand
             ELSE Ok(Head(parsed.tokens), Tail(parsed.tokens) \o b.paths)

Build_programLast(b) ==
    IF ~IsSome(b.command) THEN NoCommand
    ELSE LET parsed == parse(b.command[1])
             n == Len(parsed.tokens)
         IN  IF ~parsed.ok THEN ParseError(parsed.err)
             ELSE IF parsed.tokens = <<>> THEN EmptyCommand
             ELSE Ok(parsed.tokens[n], SubSeq(parsed.tokens, 1, n - 1) \o b.paths)

Build(b) ==
    IF ~IsSome(b.command) THEN NoCommand
    ELSE LET parsed == parse(b.command[1])
         IN  IF ~parsed.ok THEN ParseError(parsed.err)
             ELSE IF parsed.tokens = <<>> THEN EmptyCommand
             ELSE Ok(Head(parsed.tokens), Tail(parsed.tokens) \o b.paths)

EditFile_noPath(path, vis, ed) == Build(Environment(New, vis, ed))

EditFile(path, vis, ed) == Build(Path(Environment(New, vis, ed), path))

----------------------------------------------------------------------------
(* Actions *)

Init ==
    /\ visual \in EnvValues
    /\ editor \in EnvValues
    /\ builder = New
    /\ pc = "building"
    /\ result = NoResult
    /\ offers = <<>>
    /\ registered = <<>>
    /\ envCalled = FALSE
    /\ planned = Build(New)
    /\ edited = None

\* std::env::set_var / remove_var by the surrounding process, between builder calls
setenv(name, raw) ==
    /\ pc = "building"
    /\ \/ name = "VISUAL" /\ raw # visual /\ visual' = raw /\ UNCHANGED editor
       \/ name = "EDITOR" /\ raw # editor /\ editor' = raw /\ UNCHANGED visual
    /\ UNCHANGED <<builder, pc, result, offers, registered, envCalled, planned, edited>>

source(s) ==
    /\ pc = "building"
    /\ Len(offers) + 1 <= MaxOffers
    /\ builder' = Source(builder, s)
    /\ offers' = Append(offers, s)
    /\ planned' = Build(builder')
    /\ UNCHANGED <<visual, editor, pc, result, registered, envCalled, edited>>

environment ==
    /\ pc = "building"
    /\ Len(offers) + 2 <= MaxOffers
    /\ builder' = Environment(builder, visual, editor)
    /\ offers' = offers \o <<EnvVar(visual), EnvVar(editor)>>
    /\ envCalled' = TRUE
    /\ planned' = Build(builder')
    /\ UNCHANGED <<visual, editor, pc, result, registered, edited>>

path(p) ==
    /\ pc = "building"
    /\ Len(registered) < MaxPaths
    /\ builder' = Path(builder, p)
    /\ registered' = Append(registered, p)
    /\ planned' = Build(builder')
    /\ UNCHANGED <<visual, editor, pc, result, offers, envCalled, edited>>

build_deferredEnv ==
    /\ pc = "building"
    /\ result' = Build(Environment(builder, visual, editor))
    /\ pc' = "built"
    /\ UNCHANGED <<visual, editor, builder, offers, registered, envCalled, planned, edited>>

build ==
    /\ pc = "building"
    /\ result' = Build(builder)
    /\ pc' = "built"
    /\ UNCHANGED <<visual, editor, builder, offers, registered, envCalled, planned, edited>>

edit_file(p) ==
    /\ pc = "building"
    /\ builder = New /\ offers = <<>> /\ registered = <<>>
    /\ result' = EditFile(p, visual, editor)
    /\ edited' = Some(p)
    /\ pc' = "edited"
    /\ UNCHANGED <<visual, editor, builder, offers, registered, envCalled, planned>>

Next ==
    \/ \E name \in {"VISUAL", "EDITOR"}, raw \in EnvValues : setenv(name, raw)
    \/ \E s \in {None} \cup {Some(c) : c \in CmdSamples} : source(s)
    \/ environment
    \/ \E p \in PathSamples : path(p)
    \/ build
    \/ \E p \in PathSamples : edit_file(p)

Spec == Init /\ [][Next]_vars

\* build() applied to every short command string, held by VISUAL
ParseInputs == StringsUpTo(MaxCmdLen) \cup {NedExample}

InitParse ==
    /\ visual \in {Unicode(s) : s \in ParseInputs}
    /\ editor = Unset
    /\ builder = New
    /\ pc = "building"
    /\ result = NoResult
    /\ offers = <<>>
    /\ registered = <<>>
    /\ envCalled = FALSE
    /\ planned = Build(New)
    /\ edited = None

NextParse ==
    \/ environment
    \/ \E p \in PathSamples : path(p)
    \/ build

SpecParse == InitParse /\ [][NextParse]_vars

----------------------------------------------------------------------------
(* Helpers of the properties *)

\* the first present candidate of a history of offers, or None
FirstPresent(log) ==
    IF \E i \in 1..Len(log) : IsSome(log[i])
    THEN log[CHOOSE i \in 1..Len(log) :
                /\ IsSome(log[i])
                /\ \A j \in 1..(i - 1) : ~IsSome(log[j])]
    ELSE None

\* the quote that is open after the first n characters of s ("" when none is)
RECURSIVE QuoteState(_, _)
QuoteState(s, n) ==
    IF n = 0 THEN ""
    ELSE LET q == QuoteState(s, n - 1)
             c == s[n]
         IN  IF q # "" THEN (IF c = q THEN "" ELSE q)
             ELSE IF c \in QuoteChars THEN c ELSE ""

DanglingQuote(s) == QuoteState(s, Len(s)) # ""

RECURSIVE Flatten(_)
Flatten(ts) == IF ts = <<>> THEN <<>> ELSE Head(ts) \o Flatten(Tail(ts))

Chars(s) == {s[i] : i \in 1..Len(s)}

\* s without its whitespace
NoSpace(s) == SelectSeq(s, LAMBDA c : c \notin Whitespace)

\* the environment state in which env::var yields the two offers v and e
RawOf(o) == IF IsSome(o) THEN Unicode(o[1]) ELSE Unset

IsEnvironmentStep == Len(offers') = Len(offers) + 2
IsSourceStep == Len(offers') = Len(offers) + 1

----------------------------------------------------------------------------
(* C1: the selected command is the first present candidate offered, in call
   order: absent candidates before it do not block it, no later candidate
   replaces it, and build() parses exactly that value. *)
C1_FirstPresentWins ==
    /\ builder.command = FirstPresent(offers)
    /\ (pc = "built" /\ IsSome(FirstPresent(offers))) =>
          LET t == parse(FirstPresent(offers)[1])
          IN  /\ result.kind # "NoCommand"
              /\ ~t.ok => result.kind = "ParseError"
              /\ (t.ok /\ t.tokens = <<>>) => result.kind = "EmptyCommand"
              /\ (t.ok /\ t.tokens # <<>>) =>
                    /\ result.kind = "Ok"
                    /\ <<result.program>> \o SubSeq(result.args, 1, Len(t.tokens) - 1) = t.tokens

C1_Witness ==
    /\ pc = "built"
    /\ Len(offers) = 3
    /\ offers[1] = None
    /\ offers[2] = Some(TwoWords)
    /\ offers[3] = Some(Unclosed)
    /\ result.kind = "Ok"
    /\ result.program = <<"a">>

(* C2: once environment() has been called, changes of VISUAL or EDITOR before
   build() do not change what build() returns: it returns what it would have
   returned right after the last builder call. *)
C2_EnvironmentSnapshot ==
    (pc = "built" /\ envCalled) => result = planned

\* environment() found nothing, VISUAL was set to a command afterwards, and
\* build() still reports NoCommand
C2_Witness ==
    /\ pc = "built"
    /\ envCalled
    /\ \A i \in 1..Len(offers) : offers[i] = None
    /\ visual = Unicode(TwoWords)
    /\ result = NoCommand

(* C3: environment() is source(v) followed by source(e) for the values v, e
   that env::var yields for VISUAL and EDITOR at the call: VISUAL wins when
   it yields a value, EDITOR only when VISUAL yields none, a selected command
   is kept, and when neither yields a value a later source() is selected. *)
C3_EnvironmentIsTwoSources ==
    [][ /\ IsEnvironmentStep =>
            LET v == EnvVar(visual)
                e == EnvVar(editor)
            IN  /\ builder' = Source(Source(builder, v), e)
                /\ offers' = offers \o <<v, e>>
                /\ IsSome(builder.command) => builder' = builder
                /\ (~IsSome(builder.command) /\ IsSome(v)) => builder'.command = v
                /\ (~IsSome(builder.command) /\ ~IsSome(v)) => builder'.command = e
        /\ (IsSourceStep /\ envCalled /\ ~IsSome(builder.command)) =>
            builder'.command = offers'[Len(offers')]
      ]_vars

\* VISUAL yielded nothing, EDITOR a command, and a later fallback did not replace it
C3_Witness ==
    /\ envCalled
    /\ Len(offers) = 3
    /\ offers[1] = None
    /\ offers[2] = Some(TwoWords)
    /\ offers[3] = Some(Unclosed)
    /\ editor = Unicode(TwoWords)
    /\ visual # Unicode(TwoWords)
    /\ builder.command = Some(TwoWords)

(* C4: when the first present candidate is the empty string, build() fails
   with EmptyCommand whatever is offered afterwards. *)
C4_EmptyWinsThenFails ==
    /\ (pc = "built" /\ FirstPresent(offers) = Some(Empty)) =>
          /\ builder.command = Some(Empty)
          /\ result = EmptyCommand
    /\ (pc = "edited" /\ FirstPresent(<<EnvVar(visual), EnvVar(editor)>>) = Some(Empty)) =>
          result = EmptyCommand

C4_Witness ==
    /\ pc = "built"
    /\ envCalled
    /\ offers = <<None, Some(Empty), Some(TwoWords)>>
    /\ result = EmptyCommand

(* C5: a successful build() yields the k-1 base arguments of the parsed
   command followed by exactly the registered paths in call order, one
   argument per path. *)
C5_PathsAppendedInOrder ==
    (pc = "built" /\ result.kind = "Ok") =>
        LET t == parse(FirstPresent(offers)[1]).tokens
            k == Len(t)
            n == Len(registered)
        IN  /\ k >= 1
            /\ result.program = t[1]
            /\ Len(result.args) = k - 1 + n
            /\ \A i \in 1..(k - 1) : result.args[i] = t[i + 1]
            /\ \A i \in 1..n : result.args[k - 1 + i] = registered[i]

C5_Witness ==
    /\ pc = "built"
    /\ envCalled
    /\ registered = << <<"q", " ", "r">>, <<"p">> >>
    /\ result = Ok(<<"a">>, << <<"b">>, <<"q", " ", "r">>, <<"p">> >>)

(* C6: build() fails with NoCommand exactly when no present candidate was
   ever offered, whatever paths were registered, with the fixed message. *)
C6_NoCommandIffNothingOffered ==
    pc = "built" =>
        /\ result.kind = "NoCommand" <=> (\A i \in 1..Len(offers) : offers[i] = None)
        /\ result.kind = "NoCommand" =>
              Display(result) = "Edit command not defined in any of the listed sources"

C6_Witness ==
    /\ pc = "built"
    /\ envCalled
    /\ offers = <<None, None, None>>
    /\ Len(registered) = 2
    /\ result = NoCommand

(* C7: when the selected command has an unterminated quote, build() fails
   with ParseError, whose source is the tokenizer's diagnostic and whose
   message is "Invalid editor command: dangling string". *)
C7_UnterminatedQuoteIsParseError ==
    (pc = "built" /\ IsSome(builder.command) /\ DanglingQuote(builder.command[1])) =>
        /\ result.kind = "ParseError"
        /\ ErrorSource(result) = Some("dangling string")
        /\ Display(result) = "Invalid editor command: dangling string"

C7_Witness ==
    /\ pc = "built"
    /\ builder.command = Some(<<"a", "\"", "'">>)
    /\ result.kind = "ParseError"

(* C8: every value VISUAL is set to is offered unmodified as a present
   candidate, so a set VISUAL is selected by environment() on a builder
   with no command. *)
C8_SetVariableIsPresent ==
    [][ (IsEnvironmentStep /\ ~IsSome(builder.command) /\ visual.kind # "Unset") =>
            /\ IsSome(offers'[Len(offers) + 1])
            /\ IsSome(builder'.command)
            /\ visual.kind = "Unicode" => builder'.command = Some(visual.val)
      ]_vars

(* C9: edit_file(path) returns what new().environment().path(path).build()
   returns: the command of VISUAL if env::var yields one, else of EDITOR,
   with the path as the single trailing argument, and NoCommand when
   neither yields one. *)
C9_EditFileIsTheChain ==
    /\ pc = "edited" =>
          LET c == Or(EnvVar(visual), EnvVar(editor))
              p == edited[1]
          IN  IF ~IsSome(c) THEN result = NoCommand
              ELSE LET t == parse(c[1])
                   IN  /\ ~t.ok => result.kind = "ParseError"
                       /\ (t.ok /\ t.tokens = <<>>) => result = EmptyCommand
                       /\ (t.ok /\ t.tokens # <<>>) =>
                             result = Ok(t.tokens[1], Tail(t.tokens) \o <<p>>)
    /\ (pc = "built" /\ envCalled /\ Len(offers) = 2 /\ Len(registered) = 1) =>
          result = EditFile(registered[1], RawOf(offers[1]), RawOf(offers[2]))

C9_Witness ==
    /\ pc = "edited"
    /\ visual = Unset
    /\ editor = Unicode(TwoWords)
    /\ edited = Some(<<"q", " ", "r">>)
    /\ result = Ok(<<"a">>, << <<"b">>, <<"q", " ", "r">> >>)

(* C10: when the selected command tokenizes to t1..tk with k >= 1, build()
   succeeds with program t1 and base arguments t2..tk in order; unquoted
   whitespace separates tokens and a matching pair of quotes forms one token
   that keeps the other quote character and whitespace literally. *)
C10_ProgramAndBaseArguments ==
    (pc = "built" /\ IsSome(builder.command)) =>
        LET s == builder.command[1]
            t == parse(s)
            k == Len(t.tokens)
        IN  /\ (t.ok /\ k >= 1) =>
                  /\ result.kind = "Ok"
                  /\ result.program = t.tokens[1]
                  /\ result.args = Tail(t.tokens) \o registered
            \* unquoted whitespace separates tokens
            /\ (Chars(s) \cap QuoteChars = {}) =>
                  /\ t.ok
                  /\ Flatten(t.tokens) = NoSpace(s)
                  /\ \A i \in 1..k : t.tokens[i] # <<>> /\ Chars(t.tokens[i]) \cap Whitespace = {}
                  /\ k >= 1 => <<result.program>> \o SubSeq(result.args, 1, k - 1) = t.tokens
            \* a matching pair of quotes forms one token, kept literally
            /\ \A q \in QuoteChars :
                  (Len(s) >= 2 /\ s[1] = q /\ s[Len(s)] = q
                        /\ q \notin Chars(SubSeq(s, 2, Len(s) - 1))) =>
                     /\ result.kind = "Ok"
                     /\ result.program = SubSeq(s, 2, Len(s) - 1)
                     /\ result.args = registered
            /\ s = NedExample =>
                  /\ result.kind = "Ok"
                  /\ result.program = <<"n", "e", "d">>
                  /\ result.args =
                        << <<"-", "-", "s", "i", "n", "g", "l", "e", " ", "\"", " ",
                             "q", "u", "o", "t", "e", "s">>,
                           <<"-", "-", "d", "o", "u", "b", "l", "e", " ", "'", " ",
                             "q", "u", "o", "t", "e", "s">> >> \o registered

C10_Witness ==
    /\ pc = "built"
    /\ builder.command = Some(NedExample)
    /\ result.kind = "Ok"
    /\ result.program = <<"n", "e", "d">>
    /\ Len(result.args) = 3
    /\ result.args[3] = <<"p">>

====
